---- MODULE Spec2Model ----
(***************************************************************************)
(* Model of src/wrapper.rs: the Regex and RegexSet wrappers that hold an   *)
(* Option of the regex crate's compiled object, and the OptionIter /       *)
(* OptionIntoIter adapters their iterator-returning methods return.        *)
(*                                                                         *)
(* Encoding.  A string is a sequence of one-character strings.  An         *)
(* Option<T> is a sequence of length at most one: None is <<>> and Some(x) *)
(* is <<x>>.  Offsets are 0-based byte offsets as in the crate.            *)
(*                                                                         *)
(* The regex crate itself is not part of the repository.  It is modelled   *)
(* on a small pattern language (literal characters, capture groups "(" ")" *)
(* and the end anchor "$"), with the crate's documented semantics for that *)
(* fragment: leftmost match, non-overlapping iteration that steps past an  *)
(* empty match, Split's trailing piece, Cow::Borrowed from replace when    *)
(* nothing matched.                                                        *)
(***************************************************************************)
EXTENDS Integers, Sequences, FiniteSets, TLC

\* ------------------------------------------------------------- bounds
MaxPatLen == 2
MaxHayLen == 2
MaxSetLen == 2
MaxSetPatLen == 1
MaxScriptLen == 3
MaxExtraNext == 2

PatChars == {"a", "(", ")", "$"}
HayChars == {"a", "b"}
RepChars == {"_"}
Items == {1, 2}

SeqsUpTo(S, n) == UNION {[1..k -> S] : k \in 0..n}

\* Every pattern up to MaxPatLen, and a capture group with something in it.
LongerPatterns == {<<"(", "a", ")">>}
Patterns == SeqsUpTo(PatChars, MaxPatLen) \cup LongerPatterns
Haystacks == SeqsUpTo(HayChars, MaxHayLen)
Replacements == SeqsUpTo(RepChars, 1)
SetInputs == SeqsUpTo(SeqsUpTo(PatChars, MaxSetPatLen), MaxSetLen)

\* ------------------------------------------------------------- Option
None == <<>>
Some(x) == <<x>>


\* -------------------------------------------------- the regex crate
NoError == [kind |-> "none", at |-> 0, pattern |-> <<>>]

\* regex-syntax's group bookkeeping, left to right: a ")" with no open group
\* is reported where it stands; at the end of the pattern an open group is
\* reported at the "(" of the innermost group still open.
RECURSIVE ParseFrom(_, _, _)
ParseFrom(re, i, open) ==
  IF i > Len(re)
  THEN IF open = <<>> THEN NoError
       ELSE [kind |-> "unclosed group", at |-> open[Len(open)], pattern |-> re]
  ELSE IF re[i] = "(" THEN ParseFrom(re, i + 1, Append(open, i - 1))
  ELSE IF re[i] = ")"
       THEN IF open = <<>>
            THEN [kind |-> "unopened group", at |-> i - 1, pattern |-> re]
            ELSE ParseFrom(re, i + 1, SubSeq(open, 1, Len(open) - 1))
  ELSE ParseFrom(re, i + 1, open)

\* regex::Regex::new: Ok(compiled) or Err(error).  A compiled pattern is
\* determined by its source text, which stands for it.
regex_Regex_new(re) ==
  LET e == ParseFrom(re, 1, <<>>)
  IN  IF e = NoError THEN [ok |-> TRUE, val |-> Some(re), err |-> NoError]
      ELSE [ok |-> FALSE, val |-> None, err |-> e]

\* regex::RegexSet::new: the patterns are parsed in order and the first
\* failure is the error; the empty set is valid.
RECURSIVE FirstError(_, _)
FirstError(exprs, i) ==
  IF i > Len(exprs) THEN NoError
  ELSE LET e == ParseFrom(exprs[i], 1, <<>>)
       IN  IF e = NoError THEN FirstError(exprs, i + 1) ELSE e

regex_RegexSet_new(exprs) ==
  LET e == FirstError(exprs, 1)
  IN  IF e = NoError THEN [ok |-> TRUE, val |-> Some(exprs), err |-> NoError]
      ELSE [ok |-> FALSE, val |-> None, err |-> e]

IsLiteral(c) == c \notin {"(", ")", "$"}

\* The end offset of the match of re[i..] against haystack at offset pos,
\* or -1 when there is none.  Without alternation or repetition the match at
\* a given start is unique.
RECURSIVE MatchEnd(_, _, _, _)
MatchEnd(re, i, haystack, pos) ==
  IF i > Len(re) THEN pos
  ELSE IF re[i] = "$"
       THEN IF pos = Len(haystack) THEN MatchEnd(re, i + 1, haystack, pos) ELSE -1
  ELSE IF IsLiteral(re[i])
       THEN IF pos < Len(haystack) /\ haystack[pos + 1] = re[i]
            THEN MatchEnd(re, i + 1, haystack, pos + 1)
            ELSE -1
  ELSE MatchEnd(re, i + 1, haystack, pos)

Match(s, e) == [start |-> s, end |-> e]

\* The call did not return: the engine's assertion on the search span
\* failed and the panic unwound through the caller.
Panic == <<"panic", "invalid span">>

\* regex::Regex::find_at: the leftmost match starting at or after start.
\* The engine accepts the span start..haystack.len() when
\* start <= haystack.len() + 1 and panics on any later start; the span from
\* haystack.len() + 1 is empty and holds no match.
regex_find_at(re, haystack, start) ==
  IF start > Len(haystack) + 1 THEN Panic
  ELSE LET starts == {s \in start..Len(haystack) : MatchEnd(re, 1, haystack, s) # -1}
       IN  IF starts = {} THEN None
           ELSE LET s == CHOOSE x \in starts : \A y \in starts : x <= y
                IN  Some(Match(s, MatchEnd(re, 1, haystack, s)))

regex_find(re, haystack) == regex_find_at(re, haystack, 0)

regex_is_match(re, haystack) == regex_find_at(re, haystack, 0) # None

regex_as_str(re) == re

\* regex::Matches: successive non-overlapping matches.  An empty match that
\* ends where the previous match ended is skipped by searching again one
\* offset further on.
RECURSIVE MatchesFrom(_, _, _, _)
MatchesFrom(re, haystack, start, last_end) ==
  IF start > Len(haystack) THEN <<>>
  ELSE LET m0 == regex_find_at(re, haystack, start)
           m  == IF m0 # None /\ m0[1].start = m0[1].end /\ last_end = m0[1].end
                 THEN IF start + 1 > Len(haystack) THEN None
                      ELSE regex_find_at(re, haystack, start + 1)
                 ELSE m0
       IN  IF m = None THEN <<>>
           ELSE <<m[1]>> \o MatchesFrom(re, haystack, m[1].end, m[1].end)

regex_find_iter(re, haystack) == MatchesFrom(re, haystack, 0, -1)

\* regex::Split: the text between successive matches, then the rest.
RECURSIVE SplitFrom(_, _, _)
SplitFrom(haystack, ms, last) ==
  IF ms = <<>> THEN <<SubSeq(haystack, last + 1, Len(haystack))>>
  ELSE <<SubSeq(haystack, last + 1, ms[1].start)>>
         \o SplitFrom(haystack, Tail(ms), ms[1].end)

regex_split(re, haystack) == SplitFrom(haystack, regex_find_iter(re, haystack), 0)

Borrowed(s) == [cow |-> "Borrowed", str |-> s]
Owned(s) == [cow |-> "Owned", str |-> s]

RECURSIVE ReplaceFrom(_, _, _, _)
ReplaceFrom(haystack, ms, last, rep) ==
  IF ms = <<>> THEN SubSeq(haystack, last + 1, Len(haystack))
  ELSE SubSeq(haystack, last + 1, ms[1].start) \o rep
         \o ReplaceFrom(haystack, Tail(ms), ms[1].end, rep)

\* regex::Regex::replacen with a literal replacement (no "$" expansion):
\* limit 0 replaces every match; no match returns the haystack borrowed.
regex_replacen(re, haystack, limit, rep) ==
  LET all == regex_find_iter(re, haystack)
      ms  == IF limit > 0 /\ Len(all) > limit THEN SubSeq(all, 1, limit) ELSE all
  IN  IF all = <<>> THEN Borrowed(haystack)
      ELSE Owned(ReplaceFrom(haystack, ms, 0, rep))

regex_replace(re, haystack, rep) == regex_replacen(re, haystack, 1, rep)

regex_replace_all(re, haystack, rep) == regex_replacen(re, haystack, 0, rep)

\* The indices in re of the "(" tokens, in order: group k opens at the k-th.
GroupOpens(re) ==
  LET F[i \in 0..Len(re)] ==
        IF i = 0 THEN <<>>
        ELSE IF re[i] = "(" THEN Append(F[i - 1], i) ELSE F[i - 1]
  IN  F[Len(re)]

\* The index of the ")" closing the group opened at index o of a valid re.
RECURSIVE GroupClose(_, _, _)
GroupClose(re, j, depth) ==
  IF re[j] = "(" THEN GroupClose(re, j + 1, depth + 1)
  ELSE IF re[j] = ")"
       THEN IF depth = 1 THEN j ELSE GroupClose(re, j + 1, depth - 1)
  ELSE GroupClose(re, j + 1, depth)

\* The number of literal characters among re[1..i-1].
LiteralsBefore(re, i) == Cardinality({j \in 1..(i - 1) : IsLiteral(re[j])})

\* regex::Captures of the match m: the span of group 0 and of each group.
CapturesOf(re, m) ==
  LET opens == GroupOpens(re)
  IN  <<Some(m)>> \o
      [k \in 1..Len(opens) |->
         Some(Match(m.start + LiteralsBefore(re, opens[k]),
                    m.start + LiteralsBefore(re, GroupClose(re, opens[k], 0))))]

regex_captures(re, haystack) ==
  LET o == regex_find(re, haystack)
  IN  IF o = None THEN None
      ELSE LET m == o[1] IN Some(CapturesOf(re, m))

regex_captures_iter(re, haystack) ==
  LET ms == regex_find_iter(re, haystack)
  IN  [k \in 1..Len(ms) |-> CapturesOf(re, ms[k])]

\* regex::CaptureNames: one entry per group, group 0 included; no group of
\* this fragment is named.
regex_capture_names(re) == [k \in 1..(1 + Len(GroupOpens(re))) |-> None]

regex_set_patterns(set) == set

regex_set_is_match(set, haystack) ==
  \E k \in 1..Len(set) : regex_is_match(set[k], haystack)

\* regex::SetMatches: for each pattern of the set, whether it matched.
regex_set_matches(set, haystack) ==
  [k \in 1..Len(set) |-> regex_is_match(set[k], haystack)]

\* SetMatches::into_iter: the indices of the patterns that matched, ascending.
SetMatches_into_iter(matches) ==
  LET F[i \in 0..Len(matches)] ==
        IF i = 0 THEN <<>>
        ELSE IF matches[i] THEN Append(F[i - 1], i - 1) ELSE F[i - 1]
  IN  F[Len(matches)]

\* --------------------------------------------------- src/wrapper.rs
VARIABLES
  ignore_invalid,  \* cfg!(feature = "ignore-invalid"): fixed for the build
  obj,             \* the Result of the one constructor call of the run
  obs,             \* the latest query call on the wrapper and what it returned
  iter,            \* the iterator adapter the latest call returned, as advanced
  pinned           \* an earlier call and its result, kept for comparison

vars == <<ignore_invalid, obj, obs, iter, pinned>>

Ok(v) == [tag |-> "Ok", val |-> v, err |-> NoError]
Err(e) == [tag |-> "Err", val |-> None, err |-> e]

\* Regex::new.  The wrapper struct Regex(Option<regex::Regex>) is its field.
Regex_new_strict(re, feature) ==
  LET c == regex_Regex_new(re)
  IN  IF c.ok THEN Ok(Some(c.val[1])) ELSE Err(c.err)

Regex_new(re, feature) ==
  LET c == regex_Regex_new(re)
  IN  IF c.ok THEN Ok(Some(c.val[1]))
      ELSE IF feature THEN Ok(None)
      ELSE Err(c.err)

Regex_find(self, haystack) ==
  IF self = None THEN None
  ELSE LET r == self[1] IN regex_find(r, haystack)

Regex_find_at_zero(self, haystack, start) ==
  IF self = None THEN None
  ELSE LET r == self[1] IN regex_find_at(r, haystack, 0)

Regex_find_at(self, haystack, start) ==
  IF self = None THEN None
  ELSE LET r == self[1] IN regex_find_at(r, haystack, start)

\* The wrapped iterator T of an adapter: script[k] is what its k-th call to
\* next returns, and every later call returns None.
Inner(script) == [script |-> script, calls |-> 0]

\* The crate's iterators yield their items and then None for good.
IterOver(items) == Inner([k \in 1..Len(items) |-> Some(items[k])])

\* T::next
Inner_next(it) ==
  [self |-> [it EXCEPT !.calls = @ + 1],
   item |-> IF it.calls < Len(it.script) THEN it.script[it.calls + 1] ELSE None]

OptionIter_some(value) == Some(value)

OptionIter_none == None

\* A fused adapter: once the wrapped iterator has returned None it is not
\* called again.
OptionIter_next_fused(self) ==
  IF self = None THEN [self |-> None, item |-> None]
  ELSE IF \E k \in 1..self[1].calls :
            k <= Len(self[1].script) /\ self[1].script[k] = None
       THEN [self |-> self, item |-> None]
       ELSE LET r == Inner_next(self[1])
            IN  [self |-> Some(r.self), item |-> r.item]

\* OptionIter::next: self.0.as_mut()?.next()
OptionIter_next(self) ==
  IF self = None THEN [self |-> None, item |-> None]
  ELSE LET r == Inner_next(self[1])
       IN  [self |-> Some(r.self), item |-> r.item]

OptionIntoIter_some(value) == Some(value)

OptionIntoIter_none == None

\* OptionIntoIter::into_iter over regex::SetMatches
OptionIntoIter_into_iter(self) ==
  IF self = None THEN None
  ELSE LET m == self[1] IN Some(IterOver(SetMatches_into_iter(m)))

Regex_find_iter(self, haystack) ==
  IF self = None THEN OptionIter_none
  ELSE LET r == self[1] IN OptionIter_some(IterOver(regex_find_iter(r, haystack)))

\* split that hands back the whole haystack when there is no pattern
Regex_split_whole(self, haystack) ==
  IF self = None THEN OptionIter_some(IterOver(<<haystack>>))
  ELSE LET r == self[1] IN OptionIter_some(IterOver(regex_split(r, haystack)))

Regex_split(self, haystack) ==
  IF self = None THEN OptionIter_none
  ELSE LET r == self[1] IN OptionIter_some(IterOver(regex_split(r, haystack)))

Invalid == <<"i", "n", "v", "a", "l", "i", "d">>

Regex_as_str_empty(self) ==
  IF self = None THEN <<>>
  ELSE LET r == self[1] IN regex_as_str(r)

Regex_as_str(self) ==
  IF self = None THEN Invalid
  ELSE LET r == self[1] IN regex_as_str(r)

Regex_is_match(self, haystack) ==
  IF self = None THEN FALSE
  ELSE LET r == self[1] IN regex_is_match(r, haystack)

\* replace that copies the haystack when there is no pattern
Regex_replace_owned(self, haystack, rep) ==
  IF self = None THEN Owned(haystack)
  ELSE LET r == self[1] IN regex_replace(r, haystack, rep)

Regex_replace(self, haystack, rep) ==
  IF self = None THEN Borrowed(haystack)
  ELSE LET r == self[1] IN regex_replace(r, haystack, rep)

Regex_replace_all(self, haystack, rep) ==
  IF self = None THEN Borrowed(haystack)
  ELSE LET r == self[1] IN regex_replace_all(r, haystack, rep)

Regex_captures(self, haystack) ==
  IF self = None THEN None
  ELSE LET r == self[1] IN regex_captures(r, haystack)

Regex_captures_iter(self, haystack) ==
  IF self = None THEN OptionIter_none
  ELSE LET r == self[1] IN OptionIter_some(IterOver(regex_captures_iter(r, haystack)))

Regex_capture_names(self) ==
  IF self = None THEN OptionIter_none
  ELSE LET r == self[1] IN OptionIter_some(IterOver(regex_capture_names(r)))

\* The patterns of exprs that compile on their own.
ValidOnly(exprs) == SelectSeq(exprs, LAMBDA p : regex_Regex_new(p).ok)

\* A set constructor that tolerates per pattern: it keeps the valid subset.
RegexSet_new_partial(exprs, feature) ==
  LET c == regex_RegexSet_new(exprs)
  IN  IF c.ok THEN Ok(Some(c.val[1]))
      ELSE IF feature THEN Ok(Some(ValidOnly(exprs)))
      ELSE Err(c.err)

\* A set constructor that reports the failure of the last pattern, not of
\* the first one the engine met.
RegexSet_new_last_error(exprs, feature) ==
  LET c == regex_RegexSet_new(exprs)
      bad == {k \in 1..Len(exprs) : ~regex_Regex_new(exprs[k]).ok}
      last == CHOOSE k \in bad : \A j \in bad : j <= k
  IN  IF c.ok THEN Ok(Some(c.val[1]))
      ELSE IF feature THEN Ok(None)
      ELSE Err(regex_Regex_new(exprs[last]).err)

RegexSet_new(exprs, feature) ==
  LET c == regex_RegexSet_new(exprs)
  IN  IF c.ok THEN Ok(Some(c.val[1]))
      ELSE IF feature THEN Ok(None)
      ELSE Err(c.err)

RegexSet_patterns(self) ==
  IF self = None THEN <<>>
  ELSE LET r == self[1] IN regex_set_patterns(r)

RegexSet_is_match(self, haystack) ==
  IF self = None THEN FALSE
  ELSE LET r == self[1] IN regex_set_is_match(r, haystack)

RegexSet_matches(self, haystack) ==
  IF self = None THEN OptionIntoIter_none
  ELSE LET r == self[1] IN OptionIntoIter_some(regex_set_matches(r, haystack))

\* ------------------------------------------------------ state machine
Unbuilt == [state |-> "unbuilt", type |-> "none", self |-> None,
            err |-> NoError, src |-> <<>>]

NoCall == [op |-> "none", hay |-> <<>>, start |-> 0, rep |-> <<>>,
           result |-> <<>>]

NoIter == [kind |-> "none", it |-> None, nexts |-> 0, last |-> None,
           yielded |-> <<>>]

NoPin == [op |-> "none", hay |-> <<>>, start |-> 0, rep |-> <<>>,
          result |-> <<>>, other |-> FALSE]

Fresh(kind, it) == [kind |-> kind, it |-> it, nexts |-> 0, last |-> None,
                    yielded |-> <<>>]

Key(c) == <<c.op, c.hay, c.start, c.rep>>

\* The Result of a constructor as the run holds it.
Built(type, src, r) ==
  [state |-> r.tag, type |-> type, self |-> r.val, err |-> r.err, src |-> src]

\* A query call through &self.  The caller holds one returned value at a
\* time: it calls when it holds none, and keeps what the call returned until
\* it drops it.  The wrapper is only read.  The kept earlier call notes
\* whether a different call came after it.
Returned(op, haystack, start, rep, result, adapter) ==
  /\ obs = NoCall /\ iter = NoIter
  /\ obs' = [op |-> op, hay |-> haystack, start |-> start, rep |-> rep,
             result |-> result]
  /\ iter' = adapter
  /\ pinned' = IF pinned.op # "none" /\ Key(pinned) # <<op, haystack, start, rep>>
               THEN [pinned EXCEPT !.other = TRUE]
               ELSE pinned
  /\ UNCHANGED <<ignore_invalid, obj>>

IsRegex == obj.state = "Ok" /\ obj.type = "Regex"
IsRegexSet == obj.state = "Ok" /\ obj.type = "RegexSet"

NewRegex ==
  /\ obj.state = "unbuilt"
  /\ \E re \in Patterns : obj' = Built("Regex", re, Regex_new(re, ignore_invalid))
  /\ UNCHANGED <<ignore_invalid, obs, iter, pinned>>

NewRegexSet ==
  /\ obj.state = "unbuilt"
  /\ \E exprs \in SetInputs :
       obj' = Built("RegexSet", exprs, RegexSet_new(exprs, ignore_invalid))
  /\ UNCHANGED <<ignore_invalid, obs, iter, pinned>>

Find ==
  /\ IsRegex
  /\ \E h \in Haystacks :
       Returned("find", h, 0, <<>>, Regex_find(obj.self, h), NoIter)

\* Any start is passed on.  With a compiled pattern a start more than one
\* past the end of the haystack panics in the engine, and the caller is left
\* with the panic; without one the engine is never reached.
FindAt ==
  /\ IsRegex
  /\ \E h \in Haystacks, start \in 0..(MaxHayLen + 2) :
       Returned("find_at", h, start, <<>>, Regex_find_at(obj.self, h, start), NoIter)

FindIter ==
  /\ IsRegex
  /\ \E h \in Haystacks :
       LET it == Regex_find_iter(obj.self, h)
       IN  Returned("find_iter", h, 0, <<>>, it, Fresh("OptionIter", it))

Split ==
  /\ IsRegex
  /\ \E h \in Haystacks :
       LET it == Regex_split(obj.self, h)
       IN  Returned("split", h, 0, <<>>, it, Fresh("OptionIter", it))

AsStr ==
  /\ IsRegex
  /\ Returned("as_str", <<>>, 0, <<>>, Regex_as_str(obj.self), NoIter)

\* is_match that takes the compiled pattern out of the wrapper
IsMatchTakes ==
  /\ IsRegex
  /\ obs = NoCall /\ iter = NoIter
  /\ \E h \in Haystacks :
       obs' = [op |-> "is_match", hay |-> h, start |-> 0, rep |-> <<>>,
               result |-> Regex_is_match(obj.self, h)]
  /\ iter' = NoIter
  /\ obj' = [obj EXCEPT !.self = None]
  /\ pinned' = IF pinned.op # "none" THEN [pinned EXCEPT !.other = TRUE] ELSE pinned
  /\ UNCHANGED ignore_invalid

IsMatch ==
  /\ IsRegex
  /\ \E h \in Haystacks :
       Returned("is_match", h, 0, <<>>, Regex_is_match(obj.self, h), NoIter)

Replace ==
  /\ IsRegex
  /\ \E h \in Haystacks, rep \in Replacements :
       Returned("replace", h, 0, rep, Regex_replace(obj.self, h, rep), NoIter)

ReplaceAll ==
  /\ IsRegex
  /\ \E h \in Haystacks, rep \in Replacements :
       Returned("replace_all", h, 0, rep, Regex_replace_all(obj.self, h, rep), NoIter)

Captures ==
  /\ IsRegex
  /\ \E h \in Haystacks :
       Returned("captures", h, 0, <<>>, Regex_captures(obj.self, h), NoIter)

CapturesIter ==
  /\ IsRegex
  /\ \E h \in Haystacks :
       LET it == Regex_captures_iter(obj.self, h)
       IN  Returned("captures_iter", h, 0, <<>>, it, Fresh("OptionIter", it))

CaptureNames ==
  /\ IsRegex
  /\ LET it == Regex_capture_names(obj.self)
     IN  Returned("capture_names", <<>>, 0, <<>>, it, Fresh("OptionIter", it))

SetPatterns ==
  /\ IsRegexSet
  /\ Returned("patterns", <<>>, 0, <<>>, RegexSet_patterns(obj.self), NoIter)

SetIsMatch ==
  /\ IsRegexSet
  /\ \E h \in Haystacks :
       Returned("set_is_match", h, 0, <<>>, RegexSet_is_match(obj.self, h), NoIter)

SetMatches ==
  /\ IsRegexSet
  /\ \E h \in Haystacks :
       LET it == RegexSet_matches(obj.self, h)
       IN  Returned("matches", h, 0, <<>>, it, Fresh("OptionIntoIter", it))

\* for x in set.matches(h): the OptionIntoIter becomes an OptionIter
IntoIter ==
  /\ iter.kind = "OptionIntoIter"
  /\ iter' = Fresh("OptionIter", OptionIntoIter_into_iter(iter.it))
  /\ UNCHANGED <<ignore_invalid, obj, obs, pinned>>

\* How many calls to next the run makes on one adapter: past the end of the
\* wrapped iterator by MaxExtraNext.
NextCap(it) == (IF it = None THEN 0 ELSE Len(it[1].script)) + MaxExtraNext

\* next on an adapter that also takes the wrapper's compiled pattern
IterNextTakes ==
  /\ iter.kind = "OptionIter"
  /\ iter.nexts < NextCap(iter.it)
  /\ LET r == OptionIter_next(iter.it)
     IN  iter' = [kind |-> "OptionIter", it |-> r.self, nexts |-> iter.nexts + 1,
                  last |-> r.item,
                  yielded |-> IF r.item = None THEN iter.yielded
                              ELSE Append(iter.yielded, r.item[1])]
  /\ obj' = [obj EXCEPT !.self = None]
  /\ UNCHANGED <<ignore_invalid, obs, pinned>>

\* One call to OptionIter::next by the holder of the adapter, who keeps the
\* returned item.
IterNext ==
  /\ iter.kind = "OptionIter"
  /\ iter.nexts < NextCap(iter.it)
  /\ LET r == OptionIter_next(iter.it)
     IN  iter' = [kind |-> "OptionIter", it |-> r.self, nexts |-> iter.nexts + 1,
                  last |-> r.item,
                  yielded |-> IF r.item = None THEN iter.yielded
                              ELSE Append(iter.yielded, r.item[1])]
  /\ UNCHANGED <<ignore_invalid, obj, obs, pinned>>

\* The caller drops the value it holds, an adapter included.
Drop ==
  /\ obs # NoCall \/ iter # NoIter
  /\ obs' = NoCall
  /\ iter' = NoIter
  /\ UNCHANGED <<ignore_invalid, obj, pinned>>

\* The caller keeps the latest call and its result for later comparison.
Pin ==
  /\ pinned.op = "none"
  /\ obs.op # "none"
  /\ pinned' = [op |-> obs.op, hay |-> obs.hay, start |-> obs.start,
                rep |-> obs.rep, result |-> obs.result, other |-> FALSE]
  /\ UNCHANGED <<ignore_invalid, obj, obs, iter>>

Init ==
  /\ ignore_invalid \in BOOLEAN
  /\ obj = Unbuilt
  /\ obs = NoCall
  /\ iter = NoIter
  /\ pinned = NoPin

Query ==
  \/ Find \/ FindAt \/ FindIter \/ Split \/ AsStr \/ IsMatch
  \/ Replace \/ ReplaceAll \/ Captures \/ CapturesIter \/ CaptureNames
  \/ SetPatterns \/ SetIsMatch \/ SetMatches

Next ==
  \/ NewRegex \/ NewRegexSet
  \/ Query
  \/ IntoIter \/ IterNext \/ Drop

Spec == Init /\ [][Next]_vars

\* The same program with a caller that keeps one earlier result.
NextRepeat == Next \/ Pin

SpecRepeat == Init /\ [][NextRepeat]_vars

\* The adapter on its own, over any wrapped iterator: script[k] is Some(item)
\* or None, so the wrapped iterator may yield again after it returned None.
Scripts == SeqsUpTo({None} \cup {Some(x) : x \in Items}, MaxScriptLen)

InitIter ==
  /\ ignore_invalid \in BOOLEAN
  /\ obj = Unbuilt
  /\ obs = NoCall
  /\ pinned = NoPin
  /\ \E it \in {OptionIter_none} \cup {OptionIter_some(Inner(s)) : s \in Scripts} :
       iter = Fresh("OptionIter", it)

NextIter == IterNext \/ Drop

SpecIter == InitIter /\ [][NextIter]_vars

\* ------------------------------------------------------------ claims
AbsentRegex == IsRegex /\ obj.self = None
PresentRegex == IsRegex /\ obj.self # None

IterOps == {"find_iter", "split", "captures_iter", "capture_names"}

\* What the engine itself returns for a call on the compiled pattern re.
EngineValue(re, c) ==
  CASE c.op = "find" -> regex_find(re, c.hay)
    [] c.op = "find_at" -> regex_find_at(re, c.hay, c.start)
    [] c.op = "as_str" -> regex_as_str(re)
    [] c.op = "is_match" -> regex_is_match(re, c.hay)
    [] c.op = "replace" -> regex_replace(re, c.hay, c.rep)
    [] c.op = "replace_all" -> regex_replace_all(re, c.hay, c.rep)
    [] c.op = "captures" -> regex_captures(re, c.hay)

\* What the engine's iterator yields for a call on the compiled pattern re.
EngineItems(re, c) ==
  CASE c.op = "find_iter" -> regex_find_iter(re, c.hay)
    [] c.op = "split" -> regex_split(re, c.hay)
    [] c.op = "captures_iter" -> regex_captures_iter(re, c.hay)
    [] c.op = "capture_names" -> regex_capture_names(re)

\* The held adapter has so far returned the first items of the sequence
\* items, in order, and None exactly from the call after the last of them.
Follows(items) ==
  /\ iter.yielded = SubSeq(items, 1, Len(iter.yielded))
  /\ Len(iter.yielded) = (IF iter.nexts <= Len(items) THEN iter.nexts ELSE Len(items))
  /\ iter.nexts > 0 =>
       iter.last = (IF iter.nexts <= Len(items) THEN Some(items[iter.nexts]) ELSE None)

\* What the wrapper self returns for the call c.
Observe(self, c) ==
  CASE c.op = "find" -> Regex_find(self, c.hay)
    [] c.op = "find_at" -> Regex_find_at(self, c.hay, c.start)
    [] c.op = "find_iter" -> Regex_find_iter(self, c.hay)
    [] c.op = "split" -> Regex_split(self, c.hay)
    [] c.op = "as_str" -> Regex_as_str(self)
    [] c.op = "is_match" -> Regex_is_match(self, c.hay)
    [] c.op = "replace" -> Regex_replace(self, c.hay, c.rep)
    [] c.op = "replace_all" -> Regex_replace_all(self, c.hay, c.rep)
    [] c.op = "captures" -> Regex_captures(self, c.hay)
    [] c.op = "captures_iter" -> Regex_captures_iter(self, c.hay)
    [] c.op = "capture_names" -> Regex_capture_names(self)

\* Everything an adapter yields when it is advanced to its end.
RECURSIVE Drain(_, _)
Drain(it, n) ==
  IF n = 0 THEN <<>>
  ELSE LET r == OptionIter_next(it)
       IN  (IF r.item = None THEN <<>> ELSE <<r.item[1]>>) \o Drain(r.self, n - 1)

Yields(it) == Drain(it, NextCap(it))

\* What a caller can see of the value a call returned: the value itself, or
\* for an adapter the sequence it yields.
Seen(op, result) ==
  IF op \in IterOps THEN Yields(result)
  ELSE IF op = "matches" THEN Yields(OptionIntoIter_into_iter(result))
  ELSE result

\* The valid patterns that match no haystack.
NeverMatching ==
  {q \in Patterns : regex_Regex_new(q).ok /\ \A h \in Haystacks : ~regex_is_match(q, h)}

HasInvalid(exprs) == \E k \in 1..Len(exprs) : ~regex_Regex_new(exprs[k]).ok

\* C1: with the feature "ignore-invalid", Regex::new and RegexSet::new return
\* Ok for every input; when the engine's compile fails the wrapper holds no
\* compiled handle, and no error reaches the caller.
C1_TolerantNewIsOk ==
  (ignore_invalid /\ obj.state # "unbuilt") =>
    /\ obj.state = "Ok"
    /\ obj.err = NoError
    /\ (obj.type = "Regex" /\ ~regex_Regex_new(obj.src).ok) => obj.self = None
    /\ (obj.type = "RegexSet" /\ ~regex_RegexSet_new(obj.src).ok) => obj.self = None

C1_Witness ==
  /\ ignore_invalid
  /\ obj.type = "Regex" /\ obj.state = "Ok" /\ obj.self = None
  /\ ~regex_Regex_new(obj.src).ok

\* C2: without the feature, construction from an invalid pattern (or from a
\* sequence holding one) returns Err with exactly the engine's error for that
\* input, and no wrapper is produced.
C2_StrictNewIsEngineErr ==
  /\ (~ignore_invalid /\ obj.type = "Regex" /\ ~regex_Regex_new(obj.src).ok) =>
       /\ obj.state = "Err"
       /\ obj.err = regex_Regex_new(obj.src).err
  /\ (~ignore_invalid /\ obj.type = "RegexSet" /\ HasInvalid(obj.src)) =>
       /\ obj.state = "Err"
       /\ obj.err = regex_RegexSet_new(obj.src).err

C2_Witness ==
  /\ ~ignore_invalid
  /\ obj.type = "RegexSet" /\ obj.state = "Err"
  /\ Len(obj.src) = 2
  /\ regex_Regex_new(obj.src[1]).ok
  /\ obj.err.pattern = obj.src[2]

\* C3: a Regex built from a valid pattern holds the compiled pattern under
\* either policy, every query returns what the engine returns for the same
\* arguments, and an iterator yields the engine's elements in the same order.
C3_ValidDelegates ==
  /\ (obj.type = "Regex" /\ regex_Regex_new(obj.src).ok) =>
       obj.state = "Ok" /\ obj.self = regex_Regex_new(obj.src).val
  /\ (PresentRegex /\ obs.op # "none" /\ obs.op \notin IterOps) =>
       obs.result = EngineValue(obj.self[1], obs)
  /\ (PresentRegex /\ obs.op \in IterOps) =>
       /\ obs.result # None
       /\ iter.kind = "OptionIter"
       /\ Follows(EngineItems(obj.self[1], obs))

C3_Witness ==
  /\ PresentRegex
  /\ obs.op = "split"
  /\ Len(iter.yielded) >= 2
  /\ iter.last = None /\ iter.nexts > Len(iter.yielded)

\* C4: on a Regex without a compiled handle, for every haystack, start and
\* replacement: is_match is false; find, find_at and captures are None;
\* as_str is "invalid"; replace and replace_all return the haystack borrowed.
C4_AbsentFallbacks ==
  (AbsentRegex /\ obs.op # "none") =>
    /\ obs.op = "is_match" => obs.result = FALSE
    /\ obs.op \in {"find", "find_at", "captures"} => obs.result = None
    /\ obs.op = "as_str" => obs.result = <<"i", "n", "v", "a", "l", "i", "d">>
    /\ obs.op \in {"replace", "replace_all"} =>
         obs.result = [cow |-> "Borrowed", str |-> obs.hay]

C4_Witness ==
  /\ AbsentRegex
  /\ obs.op = "find_at" /\ obs.start > Len(obs.hay) + 1
  /\ obs.result = None

\* C5: on a wrapper without a compiled handle every iterator-returning query
\* yields nothing: the first next is None and so is every later one; split
\* yields no piece at all.
C5_AbsentYieldsNothing ==
  (obj.state = "Ok" /\ obj.self = None) =>
    /\ obs.op \in IterOps \cup {"matches"} => obs.result = None
    /\ iter.kind # "none" =>
         /\ iter.it = None
         /\ iter.yielded = <<>>
         /\ iter.last = None

C5_Witness ==
  /\ AbsentRegex
  /\ obs.op = "split" /\ obs.hay # <<>>
  /\ iter.nexts >= 2

\* C6: with the feature, a RegexSet built from a sequence holding at least one
\* invalid pattern is absent as a whole: patterns() is empty, is_match is
\* false and matches yields nothing, also for a haystack that a valid member
\* of the input matches.
C6_SetAllOrNothing ==
  (ignore_invalid /\ obj.type = "RegexSet" /\ HasInvalid(obj.src)) =>
    /\ obj.state = "Ok" /\ obj.self = None
    /\ obs.op = "patterns" => obs.result = <<>>
    /\ obs.op = "set_is_match" => obs.result = FALSE
    /\ obs.op = "matches" =>
         obs.result = None /\ iter.yielded = <<>> /\ iter.last = None

C6_Witness ==
  /\ ignore_invalid
  /\ obj.type = "RegexSet" /\ HasInvalid(obj.src)
  /\ obs.op = "set_is_match"
  /\ \E k \in 1..Len(obj.src) :
       regex_Regex_new(obj.src[k]).ok /\ regex_is_match(obj.src[k], obs.hay)

\* The calls whose start the engine accepts: at most one past the end of
\* the haystack.
InRange(c) == c.op = "find_at" => c.start <= Len(c.hay) + 1

\* C7 as stated: every query returns the same observation on a Regex that
\* never compiled as on a Regex of a valid pattern that matches nothing.
C7_Original ==
  (AbsentRegex /\ obs.op # "none") =>
    \A q \in NeverMatching :
      Seen(obs.op, obs.result) = Seen(obs.op, Observe(Some(q), obs))

\* C7 (amended): is_match, find, find_at with a start at most one past the
\* end of the haystack, find_iter, replace, replace_all, captures and
\* captures_iter return the same observation on a Regex that never compiled
\* as on a Regex of a valid pattern that matches nothing; as_str, split and
\* capture_names return a different one, and find_at with a later start
\* returns None on the first and panics on the second.
C7_SameWhereNoMatchIsTheAnswer ==
  /\ (AbsentRegex /\ InRange(obs)
        /\ obs.op \in {"is_match", "find", "find_at", "find_iter", "replace",
                       "replace_all", "captures", "captures_iter"}) =>
       \A q \in NeverMatching :
         Seen(obs.op, obs.result) = Seen(obs.op, Observe(Some(q), obs))
  /\ (AbsentRegex /\ obs.op \in {"as_str", "split", "capture_names"}) =>
       \A q \in NeverMatching :
         Seen(obs.op, obs.result) # Seen(obs.op, Observe(Some(q), obs))
  /\ (AbsentRegex /\ obs.op = "find_at" /\ ~InRange(obs)) =>
       \A q \in NeverMatching :
         obs.result = None /\ Observe(Some(q), obs) = Panic

C7_Witness ==
  /\ AbsentRegex
  /\ NeverMatching # {}
  /\ obs.op = "replace_all" /\ obs.hay # <<>>

\* C8: no query, and no creating, advancing or dropping of an iterator,
\* changes the constructed wrapper: the handle stays present or absent as
\* built, and a present handle stays the same compiled pattern.
C8_HandleFixed == [][obj.state = "Ok" => obj' = obj]_vars

C8_Witness ==
  /\ obj.state = "Ok" /\ obj.self # None
  /\ iter.kind = "OptionIter" /\ iter.nexts > 0 /\ iter.yielded # <<>>

\* C9: a call repeated with the same arguments, other calls in between,
\* returns a result equal to the earlier one; an iterator yields the same
\* elements as the earlier one.
C9_Repeatable ==
  (pinned.op # "none" /\ obs.op # "none" /\ Key(obs) = Key(pinned)) =>
    /\ obs.result = pinned.result
    /\ iter.kind = "OptionIter" =>
         iter.yielded = SubSeq(Seen(pinned.op, pinned.result), 1, Len(iter.yielded))

C9_Witness ==
  /\ pinned.other
  /\ obs.op = "find_iter" /\ Key(obs) = Key(pinned)
  /\ iter.yielded # <<>>

\* The Some values among the first n answers of a script, in order.
Values(script, n) ==
  LET F[i \in 0..n] ==
        IF i = 0 THEN <<>>
        ELSE IF i <= Len(script) /\ script[i] # None
             THEN Append(F[i - 1], script[i][1])
             ELSE F[i - 1]
  IN  F[n]

\* C10: an OptionIter built with an iterator calls the wrapped next once per
\* call to next and returns its answer unchanged, also after the wrapped
\* iterator has returned None.
C10_TransparentAdapter ==
  (iter.kind = "OptionIter" /\ iter.it # None) =>
    LET inner == iter.it[1]
    IN  /\ inner.calls = iter.nexts
        /\ iter.nexts > 0 =>
             iter.last = (IF iter.nexts <= Len(inner.script)
                          THEN inner.script[iter.nexts] ELSE None)
        /\ iter.yielded = Values(inner.script, iter.nexts)

C10_Witness ==
  /\ iter.kind = "OptionIter" /\ iter.it # None
  /\ iter.last # None
  /\ \E k \in 1..Len(iter.it[1].script) :
       k < iter.nexts /\ iter.it[1].script[k] = None

====
